---- MODULE Spec2Model ----
(***************************************************************************)
(* Companies House iXBRL financial parser (src/app.py).                    *)
(*                                                                         *)
(* Two state machines over one set of variables:                           *)
(*   Spec         the /parse webhook handler parse_company_accounts, one   *)
(*                action per outbound network call and per branch that     *)
(*                ends the request;                                        *)
(*   SpecExtract  parse_ixbrl applied to a bounded document, one action    *)
(*                per iteration of its tag loop.                           *)
(*                                                                         *)
(* Python strings are tuples of one-character strings, so that substring   *)
(* containment, prefix stripping, numeric cleaning and the date regex are  *)
(* computed character by character as the code computes them.  Numbers are *)
(* integers: the documents drawn here carry integer amounts and            *)
(* non-negative scales, where Python's float arithmetic is exact.          *)
(***************************************************************************)
EXTENDS Integers, Sequences, FiniteSets, TLC

\* ------------------------------------------------------------------------
\* Bounds of the model
\* ------------------------------------------------------------------------

\* Longest document (number of elements) given to parse_ixbrl in SpecExtract.
MaxTags == 3

\* Longest document the content endpoint returns in the handler's Spec.
MaxBodyTags == 1

\* ------------------------------------------------------------------------
\* Python values
\* ------------------------------------------------------------------------

\* Python's None where the other values are strings written as TLA+ strings
\* (a field name, a status).
None == "None"

\* "float | None": the empty tuple is None and <<v>> is the number v.  The
\* same empty tuple is the falsy string ("" or None) where a string is a
\* tuple of characters.
NoNumber == << >>

Num(v) == <<v>>

Digits == <<"0","1","2","3","4","5","6","7","8","9">>

UpperCase == <<"A","B","C","D","E","F","G","H","I","J","K","L","M","N","O","P","Q","R","S","T","U","V","W","X","Y","Z">>

LowerCase == <<"a","b","c","d","e","f","g","h","i","j","k","l","m","n","o","p","q","r","s","t","u","v","w","x","y","z">>

IsDigit(c) == \E i \in 1..10 : Digits[i] = c

DigitVal(c) == (CHOOSE i \in 1..10 : Digits[i] = c) - 1

\* str.lower() on one character.
LowerChar(c) ==
  IF \E i \in 1..26 : UpperCase[i] = c
  THEN LowerCase[CHOOSE i \in 1..26 : UpperCase[i] = c]
  ELSE c

\* str.lower()
Lower(s) == [i \in 1..Len(s) |-> LowerChar(s[i])]

\* str.replace(c, "") for every c of chars.
RemoveChars(s, chars) == SelectSeq(s, LAMBDA c : c \notin chars)

\* Python's "sub in s" on strings.
Contains(sub, s) ==
  \E i \in 1..(Len(s) - Len(sub) + 1) : SubSeq(s, i, i + Len(sub) - 1) = sub

\* re.sub(r"^[^:]+:", "", s): drops the text up to the first colon when at
\* least one character precedes it.
StripPrefix(s) ==
  IF \E i \in 1..Len(s) : s[i] = ":"
  THEN LET c == CHOOSE i \in 1..Len(s) :
                  s[i] = ":" /\ \A j \in 1..(i - 1) : s[j] # ":"
       IN  IF c > 1 THEN SubSeq(s, c + 1, Len(s)) ELSE s
  ELSE s

\* The value of a string of decimal digits.
RECURSIVE DigitsValue(_)
DigitsValue(s) ==
  IF s = << >> THEN 0
  ELSE 10 * DigitsValue(SubSeq(s, 1, Len(s) - 1)) + DigitVal(s[Len(s)])

IsDigitString(s) == Len(s) > 0 /\ \A i \in 1..Len(s) : IsDigit(s[i])

\* float(s) and int(s) on an optionally signed string of decimal digits;
\* NoNumber stands for the ValueError both raise on the other strings drawn
\* here ("", "-", "--5", "n/a", "x").
ParseNumber(s) ==
  IF IsDigitString(s) THEN Num(DigitsValue(s))
  ELSE IF Len(s) > 1 /\ s[1] = "-" /\ IsDigitString(Tail(s)) THEN Num(0 - DigitsValue(Tail(s)))
  ELSE IF Len(s) > 1 /\ s[1] = "+" /\ IsDigitString(Tail(s)) THEN Num(DigitsValue(Tail(s)))
  ELSE NoNumber

RECURSIVE Pow10(_)
Pow10(n) == IF n = 0 THEN 1 ELSE 10 * Pow10(n - 1)

Abs(x) == IF x < 0 THEN 0 - x ELSE x

\* ------------------------------------------------------------------------
\* FINANCIAL_TAGS
\* ------------------------------------------------------------------------

FINANCIAL_TAGS_specific_first ==
  << <<<<"t","u","r","n","o","v","e","r">>, "revenue">>,
     <<<<"r","e","v","e","n","u","e">>, "revenue">>,
     <<<<"t","u","r","n","o","v","e","r","o","r","r","e","v","e","n","u","e">>, "revenue">>,
     <<<<"o","p","e","r","a","t","i","n","g","p","r","o","f","i","t">>, "operating_profit">>,
     <<<<"p","r","o","f","i","t","l","o","s","s","o","n","o","r","d","i","n","a","r","y","a","c","t","i","v","i","t","i","e","s">>, "operating_profit">>,
     <<<<"p","r","o","f","i","t","l","o","s","s","b","e","f","o","r","e","t","a","x">>, "profit_before_tax">>,
     <<<<"p","r","o","f","i","t","b","e","f","o","r","e","t","a","x">>, "profit_before_tax">>,
     <<<<"p","r","o","f","i","t","l","o","s","s">>, "net_profit">>,
     <<<<"p","r","o","f","i","t","l","o","s","s","f","o","r","p","e","r","i","o","d">>, "net_profit">>,
     <<<<"d","e","p","r","e","c","i","a","t","i","o","n","t","a","n","g","i","b","l","e","a","s","s","e","t","s">>, "depreciation">>,
     <<<<"a","m","o","r","t","i","s","a","t","i","o","n","i","n","t","a","n","g","i","b","l","e","a","s","s","e","t","s">>, "amortisation">>,
     <<<<"n","e","t","a","s","s","e","t","s">>, "net_assets">>,
     <<<<"n","e","t","a","s","s","e","t","s","l","i","a","b","i","l","i","t","i","e","s">>, "net_assets">>,
     <<<<"t","o","t","a","l","n","e","t","a","s","s","e","t","s">>, "net_assets">>,
     <<<<"f","i","x","e","d","a","s","s","e","t","s">>, "fixed_assets">>,
     <<<<"t","a","n","g","i","b","l","e","a","s","s","e","t","s">>, "tangible_assets">>,
     <<<<"c","u","r","r","e","n","t","a","s","s","e","t","s">>, "current_assets">>,
     <<<<"c","a","s","h","a","t","b","a","n","k","a","n","d","i","n","h","h","a","n","d">>, "cash">>,
     <<<<"c","a","s","h">>, "cash">>,
     <<<<"c","r","e","d","i","t","o","r","s","w","i","t","h","i","n","o","n","e","y","e","a","r">>, "short_term_creditors">>,
     <<<<"c","r","e","d","i","t","o","r","s","d","u","e","w","i","t","h","i","n","o","n","e","y","e","a","r">>, "short_term_creditors">>,
     <<<<"c","r","e","d","i","t","o","r","s","a","f","t","e","r","o","n","e","y","e","a","r">>, "long_term_creditors">>,
     <<<<"c","r","e","d","i","t","o","r","s","d","u","e","a","f","t","e","r","o","n","e","y","e","a","r">>, "long_term_creditors">>,
     <<<<"t","o","t","a","l","c","r","e","d","i","t","o","r","s">>, "total_creditors">>,
     <<<<"c","r","e","d","i","t","o","r","s">>, "total_creditors">>,
     <<<<"n","e","t","d","e","b","t">>, "net_debt">>,
     <<<<"s","h","a","r","e","h","o","l","d","e","r","s","f","u","n","d","s">>, "shareholders_funds">>,
     <<<<"e","q","u","i","t","y">>, "shareholders_funds">>,
     <<<<"c","a","l","l","e","d","u","p","s","h","a","r","e","c","a","p","i","t","a","l">>, "share_capital">>,
     <<<<"a","v","e","r","a","g","e","n","u","m","b","e","r","e","m","p","l","o","y","e","e","s">>, "average_employees">>,
     <<<<"a","v","e","r","a","g","e","n","u","m","b","e","r","o","f","e","m","p","l","o","y","e","e","s">>, "average_employees">> >>

\* The table in the order the dict literal declares it (a Python dict
\* iterates in insertion order).
FINANCIAL_TAGS ==
  << <<<<"t","u","r","n","o","v","e","r">>, "revenue">>,
     <<<<"r","e","v","e","n","u","e">>, "revenue">>,
     <<<<"t","u","r","n","o","v","e","r","o","r","r","e","v","e","n","u","e">>, "revenue">>,
     <<<<"o","p","e","r","a","t","i","n","g","p","r","o","f","i","t">>, "operating_profit">>,
     <<<<"p","r","o","f","i","t","l","o","s","s","o","n","o","r","d","i","n","a","r","y","a","c","t","i","v","i","t","i","e","s">>, "operating_profit">>,
     <<<<"p","r","o","f","i","t","l","o","s","s","b","e","f","o","r","e","t","a","x">>, "profit_before_tax">>,
     <<<<"p","r","o","f","i","t","b","e","f","o","r","e","t","a","x">>, "profit_before_tax">>,
     <<<<"p","r","o","f","i","t","l","o","s","s">>, "net_profit">>,
     <<<<"p","r","o","f","i","t","l","o","s","s","f","o","r","p","e","r","i","o","d">>, "net_profit">>,
     <<<<"d","e","p","r","e","c","i","a","t","i","o","n","t","a","n","g","i","b","l","e","a","s","s","e","t","s">>, "depreciation">>,
     <<<<"a","m","o","r","t","i","s","a","t","i","o","n","i","n","t","a","n","g","i","b","l","e","a","s","s","e","t","s">>, "amortisation">>,
     <<<<"n","e","t","a","s","s","e","t","s">>, "net_assets">>,
     <<<<"n","e","t","a","s","s","e","t","s","l","i","a","b","i","l","i","t","i","e","s">>, "net_assets">>,
     <<<<"t","o","t","a","l","n","e","t","a","s","s","e","t","s">>, "net_assets">>,
     <<<<"f","i","x","e","d","a","s","s","e","t","s">>, "fixed_assets">>,
     <<<<"t","a","n","g","i","b","l","e","a","s","s","e","t","s">>, "tangible_assets">>,
     <<<<"c","u","r","r","e","n","t","a","s","s","e","t","s">>, "current_assets">>,
     <<<<"c","a","s","h","a","t","b","a","n","k","a","n","d","i","n","h","h","a","n","d">>, "cash">>,
     <<<<"c","a","s","h">>, "cash">>,
     <<<<"c","r","e","d","i","t","o","r","s">>, "total_creditors">>,
     <<<<"t","o","t","a","l","c","r","e","d","i","t","o","r","s">>, "total_creditors">>,
     <<<<"c","r","e","d","i","t","o","r","s","w","i","t","h","i","n","o","n","e","y","e","a","r">>, "short_term_creditors">>,
     <<<<"c","r","e","d","i","t","o","r","s","d","u","e","w","i","t","h","i","n","o","n","e","y","e","a","r">>, "short_term_creditors">>,
     <<<<"c","r","e","d","i","t","o","r","s","a","f","t","e","r","o","n","e","y","e","a","r">>, "long_term_creditors">>,
     <<<<"c","r","e","d","i","t","o","r","s","d","u","e","a","f","t","e","r","o","n","e","y","e","a","r">>, "long_term_creditors">>,
     <<<<"n","e","t","d","e","b","t">>, "net_debt">>,
     <<<<"s","h","a","r","e","h","o","l","d","e","r","s","f","u","n","d","s">>, "shareholders_funds">>,
     <<<<"e","q","u","i","t","y">>, "shareholders_funds">>,
     <<<<"c","a","l","l","e","d","u","p","s","h","a","r","e","c","a","p","i","t","a","l">>, "share_capital">>,
     <<<<"a","v","e","r","a","g","e","n","u","m","b","e","r","e","m","p","l","o","y","e","e","s">>, "average_employees">>,
     <<<<"a","v","e","r","a","g","e","n","u","m","b","e","r","o","f","e","m","p","l","o","y","e","e","s">>, "average_employees">> >>

\* The canonical fields a tag can populate: the values of FINANCIAL_TAGS.
TagFields == {FINANCIAL_TAGS[k][2] : k \in 1..Len(FINANCIAL_TAGS)}

\* ------------------------------------------------------------------------
\* parse_ixbrl: the per-element computations
\* ------------------------------------------------------------------------

\* tag.get(attr, default): attrs is the element's attribute dict, a function
\* whose domain is the set of attributes the element carries.
GetAttr(tag, attr, default) ==
  IF attr \in DOMAIN tag.attrs THEN tag.attrs[attr] ELSE default

\* tag.get("name", "") or tag.name or ""
TagName(tag) ==
  IF GetAttr(tag, "name", << >>) # << >> THEN tag.attrs["name"] ELSE tag.tag

\* re.sub(r"^[^:]+:", "", tag_name).lower().replace("-", "").replace("_", "")
NormalizeTagName(tag_name) == RemoveChars(Lower(StripPrefix(tag_name)), {"-", "_"})

\* A match of \d{4}-\d{2}-\d{2} starting at position i of s.
DateAt(s, i) ==
  /\ i + 9 <= Len(s)
  /\ \A j \in {0, 1, 2, 3, 5, 6, 8, 9} : IsDigit(s[i + j])
  /\ s[i + 4] = "-"
  /\ s[i + 7] = "-"

\* re.search(r"(\d{4}-\d{2}-\d{2})", s): the leftmost match, or the empty
\* tuple when there is none (a match is never empty).
DateSearch(s) ==
  IF \E i \in 1..Len(s) : DateAt(s, i)
  THEN LET i == CHOOSE k \in 1..Len(s) :
                  DateAt(s, k) /\ \A j \in 1..(k - 1) : ~DateAt(s, j)
       IN  SubSeq(s, i, i + 9)
  ELSE << >>

MatchTagLastWins(key) ==
  IF \E k \in 1..Len(FINANCIAL_TAGS) : Contains(FINANCIAL_TAGS[k][1], key)
  THEN FINANCIAL_TAGS[CHOOSE k \in 1..Len(FINANCIAL_TAGS) :
         /\ Contains(FINANCIAL_TAGS[k][1], key)
         /\ \A j \in (k + 1)..Len(FINANCIAL_TAGS) : ~Contains(FINANCIAL_TAGS[j][1], key)][2]
  ELSE None

\* for known_tag, field_name in FINANCIAL_TAGS.items():
\*     if known_tag in tag_name_clean: ...; break
\* The field of the entry at which the loop breaks, None when it runs out.
RECURSIVE MatchFrom(_, _)
MatchFrom(key, k) ==
  IF k > Len(FINANCIAL_TAGS) THEN None
  ELSE IF Contains(FINANCIAL_TAGS[k][1], key) THEN FINANCIAL_TAGS[k][2]
  ELSE MatchFrom(key, k + 1)

MatchTag(key) == MatchFrom(key, 1)

\* clean_numeric_value.  The characters of the class [£$€,\s] are "GBP",
\* "$", "EUR", "," and " ": the pound and euro signs are written as the
\* atoms "GBP" and "EUR".
clean_numeric_value(raw) ==
  IF raw = << >> THEN NoNumber
  ELSE LET cleaned == RemoveChars(raw, {"GBP", "$", "EUR", ",", " "})
           unwrapped ==
             IF Len(cleaned) > 0 /\ cleaned[1] = "(" /\ cleaned[Len(cleaned)] = ")"
             THEN <<"-">> \o SubSeq(cleaned, 2, Len(cleaned) - 1)
             ELSE cleaned
       IN  ParseNumber(unwrapped)

\* try: value = value * 10 ** int(scale)  except (ValueError, TypeError): pass
ApplyScale(v, scale) ==
  LET n == ParseNumber(RemoveChars(scale, {" "}))
  IN  IF n = NoNumber THEN v ELSE v * Pow10(n[1])

ApplySignLiteral(v, sign) == v

\* if sign == "-": value = -abs(value)
ApplySign(v, sign) == IF sign = <<"-">> THEN 0 - Abs(v) ELSE v

\* The value the loop body computes for a matched element, NoNumber when
\* the text does not clean to a number.
TagValue(tag) ==
  LET v == clean_numeric_value(tag.text)
  IN  IF v = NoNumber THEN NoNumber
      ELSE Num(ApplySign(ApplyScale(v[1], GetAttr(tag, "scale", <<"0">>)),
                         GetAttr(tag, "sign", << >>)))

\* ------------------------------------------------------------------------
\* The elements documents are drawn from
\* ------------------------------------------------------------------------

\* An element of the parsed document: its tag name as html.parser gives it
\* (lower case), its attribute dict and its stripped text.  A document is a
\* sequence of indices into this table, in document order.
Elements ==
  << [tag |-> <<"i","x",":","n","o","n","f","r","a","c","t","i","o","n">>, text |-> <<"1","2","3">>,
      attrs |-> [name |-> <<"u","k","-","g","a","a","p",":","T","u","r","n","o","v","e","r">>, contextref |-> <<"F","Y","2","0","2","3">>, scale |-> <<"3">>]],
     [tag |-> <<"i","x",":","n","o","n","f","r","a","c","t","i","o","n">>, text |-> <<"GBP","1",",","0","0","0">>,
      attrs |-> [name |-> <<"c","o","r","e",":","T","o","t","a","l","-","T","u","r","n","o","v","e","r","_","C","u","r","r","e","n","t","Y","e","a","r">>, contextref |-> <<"d","2","0","2","2","-","1","2","-","3","1">>]],
     [tag |-> <<"i","x",":","n","o","n","f","r","a","c","t","i","o","n">>, text |-> <<"0">>,
      attrs |-> [name |-> <<"u","k","-","g","a","a","p",":","T","u","r","n","o","v","e","r">>, contextref |-> << >>]],
     [tag |-> <<"i","x",":","n","o","n","f","r","a","c","t","i","o","n">>, text |-> <<"(","1",",","2","3","4",")">>,
      attrs |-> [name |-> <<"c","o","r","e",":","T","u","r","n","o","v","e","r","R","e","v","e","n","u","e">>, contextref |-> <<"f","r","o","m","2","0","2","1","-","0","1","-","0","1","t","o","2","0","2","1","-","1","2","-","3","1">>, scale |-> <<"x">>]],
     [tag |-> <<"i","x",":","n","o","n","f","r","a","c","t","i","o","n">>, text |-> <<"5","0","0">>,
      attrs |-> [name |-> <<"c","o","r","e",":","O","p","e","r","a","t","i","n","g","P","r","o","f","i","t","L","o","s","s">>, contextref |-> <<"d","2","0","2","3","-","1","2","-","3","1">>, scale |-> <<"0">>, sign |-> <<"-">>]],
     [tag |-> <<"i","x",":","n","o","n","f","r","a","c","t","i","o","n">>, text |-> <<"2","0","0">>,
      attrs |-> [name |-> <<"c","o","r","e",":","O","p","e","r","a","t","i","n","g","P","r","o","f","i","t","L","o","s","s">>, contextref |-> <<"F","Y","2","0","2","3">>]],
     [tag |-> <<"i","x",":","n","o","n","f","r","a","c","t","i","o","n">>, text |-> <<"5","0","0">>,
      attrs |-> [name |-> <<"c","o","r","e",":","D","e","p","r","e","c","i","a","t","i","o","n","T","a","n","g","i","b","l","e","A","s","s","e","t","s">>, contextref |-> <<"F","Y","2","0","2","3">>, sign |-> << >>]],
     [tag |-> <<"i","x",":","n","o","n","f","r","a","c","t","i","o","n">>, text |-> <<"-","3","0","0">>,
      attrs |-> [name |-> <<"c","o","r","e",":","A","m","o","r","t","i","s","a","t","i","o","n","I","n","t","a","n","g","i","b","l","e","A","s","s","e","t","s">>, contextref |-> <<"F","Y","2","0","2","3">>, sign |-> <<"-">>, scale |-> << >>]],
     [tag |-> <<"i","x",":","n","o","n","f","r","a","c","t","i","o","n">>, text |-> <<"n","/","a">>,
      attrs |-> [name |-> <<"c","o","r","e",":","P","r","o","f","i","t","L","o","s","s","B","e","f","o","r","e","T","a","x">>, contextref |-> <<"d","2","0","2","3","-","1","2","-","3","1">>]],
     [tag |-> <<"i","x",":","n","o","n","f","r","a","c","t","i","o","n">>, text |-> <<"7","5">>,
      attrs |-> [name |-> <<"c","o","r","e",":","P","r","o","f","i","t","L","o","s","s","B","e","f","o","r","e","T","a","x">>, contextref |-> <<"F","Y","2","0","2","3">>, scale |-> <<"2">>]],
     [tag |-> <<"i","x",":","n","o","n","f","r","a","c","t","i","o","n">>, text |-> <<"4","0">>,
      attrs |-> [name |-> <<"c","o","r","e",":","C","r","e","d","i","t","o","r","s","D","u","e","W","i","t","h","i","n","O","n","e","Y","e","a","r">>, contextref |-> <<"F","Y","2","0","2","3">>]],
     [tag |-> <<"i","x",":","n","o","n","f","r","a","c","t","i","o","n">>, text |-> <<"6","0">>,
      attrs |-> [name |-> <<"c","o","r","e",":","C","r","e","d","i","t","o","r","s","A","f","t","e","r","O","n","e","Y","e","a","r">>, contextref |-> <<"F","Y","2","0","2","3">>]],
     [tag |-> <<"i","x",":","n","o","n","n","u","m","e","r","i","c">>, text |-> <<"J","a","n","e">>,
      attrs |-> [name |-> <<"b","u","s",":","N","a","m","e","E","n","t","i","t","y","O","f","f","i","c","e","r">>, contextref |-> <<"d","2","0","2","4","-","0","3","-","3","1">>]],
     [tag |-> <<"i","x",":","h","e","a","d","e","r">>, text |-> << >>,
      attrs |-> [x \in {} |-> << >>]],
     [tag |-> <<"u","k","-","g","a","a","p",":","t","u","r","n","o","v","e","r">>, text |-> <<"9","0","0">>,
      attrs |-> [contextref |-> <<"d","2","0","2","0","-","0","6","-","3","0">>]],
     [tag |-> <<"s","p","a","n">>, text |-> <<"1","2">>,
      attrs |-> [class |-> <<"t","u","r","n","o","v","e","r">>]] >>

ElementIds == 1..Len(Elements)

\* Documents of at most n elements.
Documents(n) == UNION {[1..k -> ElementIds] : k \in 0..n}

\* re.compile(r"^ix:", re.IGNORECASE) on the element's tag name.
IsIxTag(tag) == Len(tag.tag) >= 3 /\ Lower(SubSeq(tag.tag, 1, 3)) = <<"i","x",":">>

\* ix_tags = soup.find_all(re.compile(r"^ix:", re.IGNORECASE))
\* if not ix_tags: ix_tags = soup.find_all(True, attrs={"contextref": True})
FindCandidates(doc) ==
  LET ix == SelectSeq(doc, LAMBDA e : IsIxTag(Elements[e]))
  IN  IF ix # << >> THEN ix
      ELSE SelectSeq(doc, LAMBDA e : "contextref" \in DOMAIN Elements[e].attrs)

\* What one iteration of the tag loop computes from its element: the
\* normalized key, the date of the context reference, the field of the table
\* entry the inner loop breaks at, and the adjusted value.
ScanOf(tag) ==
  LET key == NormalizeTagName(TagName(tag))
      f   == MatchTag(key)
  IN  [key   |-> key,
       date  |-> DateSearch(GetAttr(tag, "contextref", << >>)),
       field |-> f,
       value |-> IF f = None THEN NoNumber ELSE TagValue(tag)]

\* ScanOf of every element of the table, computed once.
ElementScan == [e \in ElementIds |-> ScanOf(Elements[e])]

StoreLastWins(res, f, v) == (f :> v) @@ res

\* if field_name not in results: results[field_name] = value
StoreField(res, f, v) == IF f \in DOMAIN res THEN res ELSE res @@ (f :> v)

\* The results dict after the loop body has run on an element.
ScanResults(res, sc) ==
  IF sc.field # None /\ sc.value # NoNumber
  THEN StoreField(res, sc.field, sc.value[1])
  ELSE res

\* dates_found after the loop body has run on an element.
ScanDates(dates, sc) == IF sc.date # << >> THEN Append(dates, sc.date) ELSE dates

\* ord() of the characters of a matched date.
Ord(c) == IF c = "-" THEN 45 ELSE 48 + DigitVal(c)

\* Python's a < b on strings.
LexLess(a, b) ==
  \/ Len(a) < Len(b) /\ SubSeq(b, 1, Len(a)) = a
  \/ \E i \in 1..Len(a) :
       /\ i <= Len(b)
       /\ SubSeq(a, 1, i - 1) = SubSeq(b, 1, i - 1)
       /\ Ord(a[i]) < Ord(b[i])

MinDate(dates) ==
  CHOOSE d \in {dates[i] : i \in 1..Len(dates)} :
    \A i \in 1..Len(dates) : ~LexLess(dates[i], d)

\* max(dates_found)
MaxDate(dates) ==
  CHOOSE d \in {dates[i] : i \in 1..Len(dates)} :
    \A i \in 1..Len(dates) : ~LexLess(d, dates[i])

\* round((num / den) * 100, 2) for den > 0, in hundredths of a percent:
\* the nearest integer to num * 10000 / den, a tie going to the even one.
RoundPct(num, den) ==
  LET n == num * 10000
      q == n \div den
      r == n % den
  IN  IF 2 * r > den THEN q + 1
      ELSE IF 2 * r = den THEN q + (q % 2)
      ELSE q

\* results.get(f, 0) or 0
GetOrZero(res, f) == IF f \in DOMAIN res THEN res[f] ELSE 0

\* if dates_found: results["balance_sheet_date"] = max(dates_found)
\* elif balance_sheet_date: results["balance_sheet_date"] = balance_sheet_date
ResolveDate(res, dates, fallback) ==
  IF dates # << >> THEN ("balance_sheet_date" :> MaxDate(dates)) @@ res
  ELSE IF fallback # << >> THEN ("balance_sheet_date" :> fallback) @@ res
  ELSE res

DeriveMetricsNonZeroRevenue(res) ==
  IF "revenue" \in DOMAIN res /\ res["revenue"] # 0
  THEN LET rev == Abs(res["revenue"])
           r1 == IF "operating_profit" \in DOMAIN res
                 THEN ("operating_margin_pct" :> RoundPct(res["operating_profit"], rev)) @@ res
                 ELSE res
           ebitda == GetOrZero(res, "operating_profit") + GetOrZero(res, "depreciation")
                       + GetOrZero(res, "amortisation")
       IN  IF ebitda # 0
           THEN ("ebitda_estimate" :> ebitda) @@ ("ebitda_margin_pct" :> RoundPct(ebitda, rev)) @@ r1
           ELSE r1
  ELSE res

\* The "Calculate derived metrics" block.
DeriveMetrics(res) ==
  IF "revenue" \in DOMAIN res /\ res["revenue"] # 0 /\ res["revenue"] > 0
  THEN LET rev == res["revenue"]
           r1 == IF "operating_profit" \in DOMAIN res
                 THEN ("operating_margin_pct" :> RoundPct(res["operating_profit"], rev)) @@ res
                 ELSE res
           ebitda == GetOrZero(res, "operating_profit") + GetOrZero(res, "depreciation")
                       + GetOrZero(res, "amortisation")
       IN  IF ebitda # 0
           THEN ("ebitda_estimate" :> ebitda) @@ ("ebitda_margin_pct" :> RoundPct(ebitda, rev)) @@ r1
           ELSE r1
  ELSE res

\* The dict with no key.
EmptyDict == [x \in {} |-> 0]

\* parse_ixbrl as a function of its arguments: the loop folded over the
\* candidates, then the date and the derived metrics.
RECURSIVE ScanAll(_, _, _, _)
ScanAll(tags, i, res, dates) ==
  IF i > Len(tags) THEN [results |-> res, dates_found |-> dates]
  ELSE ScanAll(tags, i + 1, ScanResults(res, ElementScan[tags[i]]),
               ScanDates(dates, ElementScan[tags[i]]))

parse_ixbrl(html_content, fallback) ==
  LET s == ScanAll(FindCandidates(html_content), 1, EmptyDict, << >>)
  IN  DeriveMetrics(ResolveDate(s.results, s.dates_found, fallback))

\* The filing dates the registry returns; the empty one is a filing record
\* without a date (filing.get("date", "")).
FilingDates == {<< >>, <<"2","0","2","3","-","0","9","-","3","0">>}

\* ------------------------------------------------------------------------
\* The registry's answers
\* ------------------------------------------------------------------------

MIME_PDF == <<"a","p","p","l","i","c","a","t","i","o","n","/","p","d","f">>

MIME_XHTML == <<"a","p","p","l","i","c","a","t","i","o","n","/","x","h","t","m","l","+","x","m","l">>

\* str() of a resource descriptor.
Descriptor == <<"{","'","c","o","n","t","e","n","t","_","l","e","n","g","t","h","'",":"," ","1","}">>

\* The "resources" maps of a metadata response: MIME type to descriptor.
ResourceMaps ==
  { [k \in {} |-> Descriptor],
    [k \in {MIME_PDF} |-> Descriptor],
    [k \in {MIME_PDF, MIME_XHTML} |-> Descriptor],
    [k \in {MIME_PDF, <<"a","p","p","l","i","c","a","t","i","o","n","/","x","h","t","m","l">>} |-> Descriptor],
    [k \in {<<"a","p","p","l","i","c","a","t","i","o","n","/","x","h","t","m","l","+","x","m","l",";","c","h","a","r","s","e","t","=","u","t","f","-","8">>} |-> Descriptor] }

\* The JSON bodies of a metadata response; the one without resources and
\* without a document link is the empty object.
MetadataBodies ==
  [resources : ResourceMaps, document : {<< >>, <<"/","d","o","c","u","m","e","n","t","/","a","b","c">>}]

\* The filing-history answers: the first item's date and metadata link.
FilingItems ==
  [date : FilingDates,
   document_metadata : {<< >>, <<"/","d","o","c","u","m","e","n","t","/","a","b","c">>, <<"h","t","t","p","s",":","/","/","f","r","o","n","t","e","n","d","-","d","o","c","-","a","p","i","/","d","o","c","u","m","e","n","t","/","a","b","c">>}]

\* The bodies the content endpoint or the storage behind it returns: the
\* empty body, or markup holding a document.
ContentBodies ==
  {[empty |-> TRUE, doc |-> << >>]}
    \cup {[empty |-> FALSE, doc |-> d] : d \in Documents(MaxBodyTags)}

\* What a content request gets: whether the endpoint redirects (a 30x with a
\* Location header), whether the Location is on the requested host, and the
\* status and body of the last response of the exchange.
ContentReplies ==
  {[redirect |-> r, same_host |-> h, status |-> st, body |-> b] :
     r \in BOOLEAN, h \in BOOLEAN, st \in {200, 302, 404}, b \in ContentBodies}

\* The request bodies of POST /parse, after strip(); json is FALSE for a body
\* that get_json() gives as None.
RequestBodies ==
  {[json |-> FALSE, company_number |-> << >>, api_key |-> << >>]}
    \cup [json : {TRUE}, company_number : {<< >>, <<"0","5","2","3","8","6","5","8">>}, api_key : {<< >>, <<"k","e","y">>}]

\* ------------------------------------------------------------------------
\* State
\* ------------------------------------------------------------------------

VARIABLES
  pc,                  \* position in the handler or in parse_ixbrl
  data,                \* handler: the request body
  log,                 \* handler: the HTTP requests sent so far, in order
  filing,              \* handler: the filing get_filing_history returned
  metadata,            \* handler: the metadata get_document_metadata returned
  html_content,        \* handler: what download_ixbrl returned
  financial_data,      \* handler: what parse_ixbrl returned
  response,            \* handler: the response of the request
  html,                \* parse_ixbrl's document: a sequence of indices into Elements
  balance_sheet_date,  \* parse_ixbrl's second argument (the fallback date)
  ix_tags,             \* parse_ixbrl: the candidate elements
  idx,                 \* parse_ixbrl: position of the tag loop in ix_tags
  results,             \* parse_ixbrl: the results dict
  dates_found,         \* parse_ixbrl: the dates_found list
  tag_name_clean,      \* parse_ixbrl: normalized key of the last element
  field_name,          \* parse_ixbrl: field at which the inner loop broke, or None
  value                \* parse_ixbrl: value computed for the last matched element

hvars == <<data, log, filing, metadata, html_content, financial_data, response>>

pvars == <<html, balance_sheet_date, ix_tags, idx, results, dates_found,
           tag_name_clean, field_name, value>>

vars == <<pc, hvars, pvars>>

NoFiling == [date |-> << >>, document_metadata |-> << >>]

NoMetadata == [resources |-> [k \in {} |-> Descriptor], document |-> << >>]

NoContent == [empty |-> TRUE, doc |-> << >>]

NoResponse ==
  [code |-> 0, status |-> None, available_formats |-> {}, filing_date |-> << >>,
   raw_financial_data |-> EmptyDict]

\* jsonify({... "status": status ...}), code
Respond(code, status) == [NoResponse EXCEPT !.code = code, !.status = status]

HandlerIdle ==
  /\ data = [json |-> FALSE, company_number |-> << >>, api_key |-> << >>]
  /\ log = << >>
  /\ filing = NoFiling
  /\ metadata = NoMetadata
  /\ html_content = NoContent
  /\ financial_data = EmptyDict
  /\ response = NoResponse

ParserIdle ==
  /\ html = << >>
  /\ balance_sheet_date = << >>
  /\ ix_tags = << >>
  /\ idx = 1
  /\ results = EmptyDict
  /\ dates_found = << >>
  /\ tag_name_clean = << >>
  /\ field_name = None
  /\ value = NoNumber

\* ------------------------------------------------------------------------
\* SpecExtract: parse_ixbrl, step by step
\* ------------------------------------------------------------------------

InitExtract ==
  /\ pc = "select"
  /\ HandlerIdle
  /\ html \in Documents(MaxTags)
  /\ balance_sheet_date \in FilingDates
  /\ ix_tags = << >>
  /\ idx = 1
  /\ results = EmptyDict
  /\ dates_found = << >>
  /\ tag_name_clean = << >>
  /\ field_name = None
  /\ value = NoNumber

\* The two find_all calls.
SelectTags ==
  /\ pc = "select"
  /\ ix_tags' = FindCandidates(html)
  /\ pc' = "scan"
  /\ UNCHANGED <<html, balance_sheet_date, idx, results, dates_found,
                 tag_name_clean, field_name, value>>
  /\ UNCHANGED hvars

\* One iteration of "for tag in ix_tags".  field_name is the field of the
\* table entry the inner loop broke at, None when it ran to the end; value
\* keeps what the last matched element left in it.
ScanTag ==
  /\ pc = "scan"
  /\ idx <= Len(ix_tags)
  /\ LET sc == ElementScan[ix_tags[idx]]
     IN  /\ tag_name_clean' = sc.key
         /\ field_name' = sc.field
         /\ value' = IF sc.field = None THEN value ELSE sc.value
         /\ dates_found' = ScanDates(dates_found, sc)
         /\ results' = ScanResults(results, sc)
  /\ idx' = idx + 1
  /\ UNCHANGED <<pc, html, balance_sheet_date, ix_tags>>
  /\ UNCHANGED hvars

\* After the loop: the balance sheet date, the derived metrics, return.
Finish ==
  /\ pc = "scan"
  /\ idx > Len(ix_tags)
  /\ results' = DeriveMetrics(ResolveDate(results, dates_found, balance_sheet_date))
  /\ pc' = "returned"
  /\ UNCHANGED <<html, balance_sheet_date, ix_tags, idx, dates_found,
                 tag_name_clean, field_name, value>>
  /\ UNCHANGED hvars

NextExtract == SelectTags \/ ScanTag \/ Finish

SpecExtract == InitExtract /\ [][NextExtract]_vars

\* ------------------------------------------------------------------------
\* Spec: the handler parse_company_accounts
\* ------------------------------------------------------------------------

\* A request sent with requests.get, or by requests while it follows a
\* redirect: the URL it goes to, whether it carries the basic-auth
\* credential, whether it carries the Accept header, and whether the call
\* was made with allow_redirects.
Request(url, auth, accept, follow) ==
  [url |-> url, auth |-> auth, accept |-> accept, allow_redirects |-> follow]

Init ==
  /\ pc = "start"
  /\ data \in RequestBodies
  /\ log = << >>
  /\ filing = NoFiling
  /\ metadata = NoMetadata
  /\ html_content = NoContent
  /\ financial_data = EmptyDict
  /\ response = NoResponse
  /\ ParserIdle

\* request.get_json() and the checks of company_number and api_key; the 400
\* responses carry an error text and no "status".
ValidateRequest ==
  /\ pc = "start"
  /\ IF ~data.json \/ data.company_number = << >> \/ data.api_key = << >>
     THEN /\ response' = Respond(400, None)
          /\ pc' = "done"
     ELSE /\ pc' = "filing"
          /\ UNCHANGED response
  /\ UNCHANGED <<data, log, filing, metadata, html_content, financial_data>>
  /\ UNCHANGED pvars

\* Step 1: get_filing_history, then the check of the metadata link.
GetFilingHistory ==
  /\ pc = "filing"
  /\ log' = Append(log, Request("filing-history", TRUE, FALSE, TRUE))
  /\ \E status \in {200, 404}, items \in {<< >>} \cup {<<f>> : f \in FilingItems} :
       IF status # 200 \/ items = << >>
       THEN /\ response' = Respond(404, "no_filing")
            /\ pc' = "done"
            /\ UNCHANGED filing
       ELSE /\ filing' = items[1]
            /\ IF items[1].document_metadata = << >>
               THEN /\ response' = Respond(404, "no_document_url")
                    /\ pc' = "done"
               ELSE /\ pc' = "metadata"
                    /\ UNCHANGED response
  /\ UNCHANGED <<data, metadata, html_content, financial_data>>
  /\ UNCHANGED pvars

\* "application/xhtml" in str(resources): the text has no quote, brace,
\* colon-space or comma-space, so it lies inside one key or one value.
StrContainsXhtml(resources) ==
  \E k \in DOMAIN resources :
    \/ Contains(<<"a","p","p","l","i","c","a","t","i","o","n","/","x","h","t","m","l">>, k)
    \/ Contains(<<"a","p","p","l","i","c","a","t","i","o","n","/","x","h","t","m","l">>, resources[k])

FormatAvailableAnyApplication(resources) ==
  \/ MIME_XHTML \in DOMAIN resources
  \/ \E k \in DOMAIN resources : Contains(<<"a","p","p","l","i","c","a","t","i","o","n","/">>, k)

\* The negation of the condition of the pdf_only branch.
FormatAvailable(resources) ==
  MIME_XHTML \in DOMAIN resources \/ StrContainsXhtml(resources)

\* Step 2: get_document_metadata, the format gate and the check of the
\* download link.
GetDocumentMetadata ==
  /\ pc = "metadata"
  /\ log' = Append(log, Request("metadata", TRUE, FALSE, TRUE))
  /\ \E status \in {200, 404}, body \in MetadataBodies :
       IF status # 200 \/ (DOMAIN body.resources = {} /\ body.document = << >>)
       THEN /\ response' = Respond(500, "metadata_error")
            /\ pc' = "done"
            /\ UNCHANGED metadata
       ELSE /\ metadata' = body
            /\ IF ~FormatAvailable(body.resources)
               THEN /\ response' =
                         [Respond(200, "pdf_only") EXCEPT
                            !.available_formats = DOMAIN body.resources,
                            !.filing_date = filing.date]
                    /\ pc' = "done"
               ELSE IF body.document = << >>
               THEN /\ response' = Respond(500, "no_download_url")
                    /\ pc' = "done"
               ELSE /\ pc' = "download"
                    /\ UNCHANGED response
  /\ UNCHANGED <<data, filing, html_content, financial_data>>
  /\ UNCHANGED pvars

\* The requests one requests.get(f"{document_url}/content", auth=...,
\* allow_redirects=True) sends: the request to the content endpoint and,
\* when it answers with a redirect, the request requests sends to the
\* Location.  requests keeps the Authorization header on a redirect to the
\* same host and drops it on a redirect to another host.
FollowingGet(accept, reply) ==
  IF reply.redirect
  THEN << Request("content", TRUE, accept, TRUE),
          Request("location", reply.same_host, accept, TRUE) >>
  ELSE << Request("content", TRUE, accept, TRUE) >>

\* Step 3, download_ixbrl up to its first return: the request with the
\* Accept header.
DownloadIxbrl ==
  /\ pc = "download"
  /\ \E reply \in ContentReplies :
       /\ log' = log \o FollowingGet(TRUE, reply)
       /\ IF reply.status = 200 /\ ~reply.body.empty
          THEN /\ html_content' = reply.body
               /\ pc' = "parse"
          ELSE /\ pc' = "fallback"
               /\ UNCHANGED html_content
  /\ UNCHANGED <<data, filing, metadata, financial_data, response>>
  /\ UNCHANGED pvars

\* Step 3, the rest of download_ixbrl: the request without the Accept
\* header, which returns resp.text on any 200, and the handler's check
\* "if not html_content" of what was returned.
DownloadFallback ==
  /\ pc = "fallback"
  /\ \E reply \in ContentReplies :
       /\ log' = log \o FollowingGet(FALSE, reply)
       /\ LET returned == IF reply.status = 200 THEN reply.body ELSE NoContent
          IN  IF returned.empty
              THEN /\ response' = Respond(500, "download_error")
                   /\ pc' = "done"
                   /\ UNCHANGED html_content
              ELSE /\ html_content' = returned
                   /\ pc' = "parse"
                   /\ UNCHANGED response
  /\ UNCHANGED <<data, filing, metadata, financial_data>>
  /\ UNCHANGED pvars

\* Steps 4 and 5: parse_ixbrl and the response.
ParseAndRespond ==
  /\ pc = "parse"
  /\ LET fd == parse_ixbrl(html_content.doc, filing.date)
     IN  /\ financial_data' = fd
         /\ response' =
              IF DOMAIN fd = {}
              THEN [Respond(200, "parse_empty") EXCEPT !.filing_date = filing.date]
              ELSE [Respond(200, "success") EXCEPT
                      !.filing_date = filing.date, !.raw_financial_data = fd]
  /\ pc' = "done"
  /\ UNCHANGED <<data, log, filing, metadata, html_content>>
  /\ UNCHANGED pvars

Next ==
  \/ ValidateRequest
  \/ GetFilingHistory
  \/ GetDocumentMetadata
  \/ DownloadIxbrl
  \/ DownloadFallback
  \/ ParseAndRespond

Spec == Init /\ [][Next]_vars

\* ------------------------------------------------------------------------
\* Properties of the handler (Spec)
\* ------------------------------------------------------------------------

\* The requests of the log that went to the content endpoint itself.
ContentRequests == SelectSeq(log, LAMBDA r : r.url = "content")

\* C1: no request carrying the registry credential goes to the redirect
\* target: the first content request is made with redirect-following
\* disabled, and every request to the Location URL is unauthenticated.
C1_CredentialNeverSentToRedirectTarget ==
  /\ \A i \in 1..Len(log) : log[i].url = "location" => ~log[i].auth
  /\ Len(ContentRequests) >= 1 => ~ContentRequests[1].allow_redirects

\* C2: the download is a chain of three attempts in a fixed order: a
\* non-following request (with an unauthenticated fetch of the Location),
\* then an authenticated following request with the Accept header, then an
\* authenticated following request without it; it stops at the first success
\* and the request ends in download_error only after all three.
C2_ThreeAttemptChain ==
  LET cs == ContentRequests
  IN  /\ Len(cs) <= 3
      /\ Len(cs) >= 1 => ~cs[1].allow_redirects
      /\ Len(cs) >= 2 => cs[2].auth /\ cs[2].allow_redirects /\ cs[2].accept
      /\ Len(cs) >= 3 => cs[3].auth /\ cs[3].allow_redirects /\ ~cs[3].accept
      /\ response.status = "download_error" => Len(cs) = 3
      /\ \A i \in 1..Len(log) : log[i].url = "location" => ~log[i].auth

\* A metadata body was received and accepted (the handler keeps only a
\* non-empty body of a 200 response).
MetadataReceived == metadata # NoMetadata

\* The request sent nothing to the content endpoint or to a redirect target.
NoDownloadRequest ==
  \A i \in 1..Len(log) : log[i].url \notin {"content", "location"}

\* The pdf_only response: success class, with the formats and the filing date.
IsPdfOnlyResponse ==
  /\ response.code = 200
  /\ response.status = "pdf_only"
  /\ response.available_formats = DOMAIN metadata.resources
  /\ response.filing_date = filing.date

\* C4 as stated: whenever the format map lacks the key
\* application/xhtml+xml, the request ends in pdf_only and no content
\* request is sent.
C4_FormatGateExactKey ==
  (MetadataReceived /\ MIME_XHTML \notin DOMAIN metadata.resources)
    => (IsPdfOnlyResponse /\ NoDownloadRequest)

\* C4 as amended: whenever an accepted metadata body has a format map that
\* lacks the key application/xhtml+xml and whose text does not contain
\* "application/xhtml" either, the request ends in pdf_only (code 200, the
\* formats, the filing date) and no content request is sent.
C4_FormatGate ==
  (/\ MetadataReceived
   /\ MIME_XHTML \notin DOMAIN metadata.resources
   /\ \A k \in DOMAIN metadata.resources :
        /\ ~Contains(<<"a","p","p","l","i","c","a","t","i","o","n","/","x","h","t","m","l">>, k)
        /\ ~Contains(<<"a","p","p","l","i","c","a","t","i","o","n","/","x","h","t","m","l">>, metadata.resources[k]))
    => (IsPdfOnlyResponse /\ NoDownloadRequest)

\* C4 witness: a PDF-only filing with a filing date, answered pdf_only.
C4_Witness ==
  /\ pc = "done"
  /\ response.status = "pdf_only"
  /\ response.available_formats = {MIME_PDF}
  /\ response.filing_date = <<"2","0","2","3","-","0","9","-","3","0">>
  /\ Len(log) = 2

\* C5: when the markup yields no financial field, parse_ixbrl returns the
\* empty record and the request ends in parse_empty (code 200), not in
\* success, also when the filing date is not empty.
C5_EmptyExtractionReported ==
  (/\ pc = "done"
   /\ response.status \in {"success", "parse_empty"}
   /\ \A i \in 1..Len(FindCandidates(html_content.doc)) :
        LET sc == ElementScan[FindCandidates(html_content.doc)[i]]
        IN  sc.field = None \/ sc.value = NoNumber)
    => (/\ financial_data = EmptyDict
        /\ response.status = "parse_empty"
        /\ response.code = 200)

\* ------------------------------------------------------------------------
\* Properties of parse_ixbrl (SpecExtract)
\* ------------------------------------------------------------------------

\* The candidates the loop has been through.
Scanned == 1..(idx - 1)

\* The element the last iteration was on.
LastTag == Elements[ix_tags[idx - 1]]

\* The scanned candidates that match the table to field f and whose text
\* cleans to a number.
Occurrences(f) ==
  {i \in Scanned : ElementScan[ix_tags[i]].field = f /\ ElementScan[ix_tags[i]].value # NoNumber}

Least(S) == CHOOSE i \in S : \A j \in S : i <= j

RevenuePositive == "revenue" \in DOMAIN results /\ results["revenue"] > 0

\* operating_profit + depreciation + amortisation, an absent term being 0.
EbitdaSum ==
  (IF "operating_profit" \in DOMAIN results THEN results["operating_profit"] ELSE 0)
    + (IF "depreciation" \in DOMAIN results THEN results["depreciation"] ELSE 0)
    + (IF "amortisation" \in DOMAIN results THEN results["amortisation"] ELSE 0)

\* C6: in the returned record, when revenue is absent, zero or negative none
\* of the derived metrics is present; when revenue is positive,
\* operating_margin_pct is present only if operating_profit is, and
\* ebitda_estimate and ebitda_margin_pct are present together, exactly when
\* operating_profit + depreciation + amortisation is not zero.
C6_DerivedMetricGuard ==
  pc = "returned" =>
    /\ ~RevenuePositive =>
         DOMAIN results \cap {"operating_margin_pct", "ebitda_estimate", "ebitda_margin_pct"} = {}
    /\ RevenuePositive =>
         /\ "operating_margin_pct" \in DOMAIN results => "operating_profit" \in DOMAIN results
         /\ "ebitda_estimate" \in DOMAIN results <=> EbitdaSum # 0
         /\ "ebitda_margin_pct" \in DOMAIN results <=> EbitdaSum # 0
         /\ EbitdaSum # 0 => results["ebitda_estimate"] = EbitdaSum

\* C6 witness: a negative revenue beside an operating profit, and no derived
\* metric in the returned record.
C6_Witness ==
  /\ pc = "returned"
  /\ "revenue" \in DOMAIN results
  /\ results["revenue"] < 0
  /\ "operating_profit" \in DOMAIN results
  /\ results["operating_profit"] # 0
  /\ "ebitda_estimate" \notin DOMAIN results

\* The dates the scan takes from the context references of the candidates:
\* of each reference, its leftmost ISO date.
ObservedDates ==
  {DateSearch(GetAttr(Elements[ix_tags[i]], "contextref", << >>)) : i \in 1..Len(ix_tags)}
    \ {<< >>}

\* C7: the returned balance_sheet_date is the lexicographic maximum of the
\* dates observed in the context references of all candidate elements; when
\* none holds a date it is the fallback filing date (and absent when that is
\* empty).
C7_DateResolution ==
  pc = "returned" =>
    IF ObservedDates # {}
    THEN /\ "balance_sheet_date" \in DOMAIN results
         /\ results["balance_sheet_date"] \in ObservedDates
         /\ \A d \in ObservedDates : ~LexLess(results["balance_sheet_date"], d)
    ELSE IF balance_sheet_date # << >>
    THEN /\ "balance_sheet_date" \in DOMAIN results
         /\ results["balance_sheet_date"] = balance_sheet_date
    ELSE "balance_sheet_date" \notin DOMAIN results

\* C7 witness: two dates observed, the later one on an element that matches
\* no known tag, a fallback that differs, and the later date returned.
C7_Witness ==
  /\ pc = "returned"
  /\ balance_sheet_date = <<"2","0","2","3","-","0","9","-","3","0">>
  /\ ObservedDates = {<<"2","0","2","2","-","1","2","-","3","1">>, <<"2","0","2","4","-","0","3","-","3","1">>}
  /\ results["balance_sheet_date"] = <<"2","0","2","4","-","0","3","-","3","1">>
  /\ \E i \in 1..Len(ix_tags) :
       /\ ElementScan[ix_tags[i]].field = None
       /\ ElementScan[ix_tags[i]].date = <<"2","0","2","4","-","0","3","-","3","1">>

\* The table entries whose substring the key contains.
Hits(key) == {k \in 1..Len(FINANCIAL_TAGS) : Contains(FINANCIAL_TAGS[k][1], key)}

\* Of every element of the table: its normalized key, the fields of all the
\* table entries whose substring the key contains, and the field of the
\* first of them in declared order (None when there is none).
KeyFacts ==
  [e \in ElementIds |->
     LET key == NormalizeTagName(TagName(Elements[e]))
     IN  [key    |-> key,
          fields |-> {FINANCIAL_TAGS[k][2] : k \in Hits(key)},
          first  |-> IF Hits(key) = {} THEN None
                     ELSE FINANCIAL_TAGS[Least(Hits(key))][2]]]

\* C8: after each iteration, the field chosen for the element's normalized
\* key is that of the first table entry, in declared order, whose substring
\* the key contains, and none when no entry's substring is contained; the
\* key "totalturnovercurrentyear" maps to revenue; and no later entry that
\* also matches puts its field in the record.
C8_FirstContainedEntry ==
  (pc \in {"scan", "returned"} /\ idx > 1) =>
    LET facts == KeyFacts[ix_tags[idx - 1]]
    IN  /\ tag_name_clean = facts.key
        /\ field_name = facts.first
        /\ tag_name_clean = <<"t","o","t","a","l","t","u","r","n","o","v","e","r","c","u","r","r","e","n","t","y","e","a","r">> => field_name = "revenue"
        /\ \A f \in facts.fields :
             (f # field_name /\ Occurrences(f) = {}) => f \notin DOMAIN results

\* C8 witness: an element whose key contains two entries mapped to different
\* fields (profitlossbeforetax before profitloss) follows the element with
\* the key totalturnovercurrentyear.
C8_Witness ==
  /\ pc = "scan"
  /\ idx = 3
  /\ ElementScan[ix_tags[1]].key = <<"t","o","t","a","l","t","u","r","n","o","v","e","r","c","u","r","r","e","n","t","y","e","a","r">>
  /\ results["revenue"] = 1000
  /\ tag_name_clean = <<"p","r","o","f","i","t","l","o","s","s","b","e","f","o","r","e","t","a","x">>
  /\ KeyFacts[ix_tags[2]].fields = {"profit_before_tax", "net_profit"}
  /\ field_name = "profit_before_tax"

\* v * 10^scale for a scale attribute that is a string of digits, v when the
\* attribute is anything else, 10^0 when the element has no scale attribute.
Scaled(v, tag) ==
  IF "scale" \notin DOMAIN tag.attrs THEN v
  ELSE IF IsDigitString(tag.attrs["scale"]) THEN v * (10 ^ DigitsValue(tag.attrs["scale"]))
  ELSE v

\* C9: for a matched element whose text cleans to the number v, the value
\* computed (and stored when the field was not populated before) is
\* v * 10^scale, or v when the scale does not parse, forced to
\* -|v * 10^scale| when the sign attribute is "-"; "123" with scale "3" gives
\* 123000 and "500" with sign "-" gives -500.
C9_ScaleAndSign ==
  (pc \in {"scan", "returned"} /\ idx > 1 /\ field_name # None
     /\ clean_numeric_value(LastTag.text) # NoNumber) =>
    LET v == clean_numeric_value(LastTag.text)[1]
        scaled == Scaled(v, LastTag)
        expected == IF "sign" \in DOMAIN LastTag.attrs /\ LastTag.attrs["sign"] = <<"-">>
                    THEN (IF scaled < 0 THEN scaled ELSE 0 - scaled)
                    ELSE scaled
    IN  /\ value = <<expected>>
        /\ Occurrences(field_name) = {idx - 1} => results[field_name] = expected
        /\ (LastTag.text = <<"1","2","3">> /\ GetAttr(LastTag, "scale", << >>) = <<"3">>
              /\ "sign" \notin DOMAIN LastTag.attrs) => value = <<123000>>
        /\ (LastTag.text = <<"5","0","0">> /\ GetAttr(LastTag, "sign", << >>) = <<"-">>) =>
              value = <<0 - 500>>

\* C9 witness: "123" with scale "3" stored as 123000, then "500" with sign
\* "-" stored as -500.
C9_Witness ==
  /\ pc = "scan"
  /\ idx = 3
  /\ Elements[ix_tags[1]].text = <<"1","2","3">>
  /\ results["revenue"] = 123000
  /\ LastTag.text = <<"5","0","0">>
  /\ LastTag.attrs["sign"] = <<"-">>
  /\ value = <<0 - 500>>
  /\ results["operating_profit"] = 0 - 500

\* The table substrings of the two creditor breakdown fields.
BreakdownEntries ==
  {k \in 1..Len(FINANCIAL_TAGS) :
     FINANCIAL_TAGS[k][2] \in {"short_term_creditors", "long_term_creditors"}}

\* C10: the record never holds short_term_creditors or long_term_creditors:
\* an element whose key contains one of their table substrings is mapped to
\* total_creditors.
C10_BreakdownShadowed ==
  /\ "short_term_creditors" \notin DOMAIN results
  /\ "long_term_creditors" \notin DOMAIN results
  /\ (pc \in {"scan", "returned"} /\ idx > 1
        /\ \E k \in BreakdownEntries : Contains(FINANCIAL_TAGS[k][1], tag_name_clean))
       => field_name = "total_creditors"

\* C10 witness: an element tagged CreditorsDueWithinOneYear with a numeric
\* value has been stored as total_creditors.
C10_Witness ==
  /\ pc = "scan"
  /\ idx = 2
  /\ tag_name_clean = <<"c","r","e","d","i","t","o","r","s","d","u","e","w","i","t","h","i","n","o","n","e","y","e","a","r">>
  /\ field_name = "total_creditors"
  /\ results["total_creditors"] = 40

====
